---- MODULE Spec2Model ----
(***************************************************************************)
(* Checkout / loyalty ledger of the Cakebox API (src/main.py).             *)
(*                                                                         *)
(* Representation.                                                         *)
(*  - An identifier string is a pair <<collection, n>>: the string form of *)
(*    the n-th ObjectId generated for that collection.  <<"malformed", 0>> *)
(*    is a string that bson.ObjectId() rejects.                            *)
(*  - Python floats holding money (price, subtotal, total) are integers in *)
(*    hundredths (cents).  For every cart the model enumerates (prices     *)
(*    24.99 and 27.5, quantities in Qtys, at most MaxItems + 1 lines) the  *)
(*    IEEE-754 double computation of main.py (price * quantity summed left *)
(*    to right, int(), round(.., 2)) gives exactly the cents value         *)
(*    computed here.  `discount` is kept in whole currency units, as the   *)
(*    code computes it, and converted where it meets a float.              *)
(*  - Every database call (find_one, update_one, create_document) is one   *)
(*    atomic step; a handler is the sequence of its database calls.        *)
(***************************************************************************)
EXTENDS Integers, Sequences, FiniteSets, TLC

VARIABLES
    users,      \* db["user"]: sequence of documents, in insertion order
    orders,     \* db["order"]
    txs,        \* db["loyaltytransaction"]
    pc,         \* pc[w]: where request worker w stands in its handler
    req,        \* req[w]: the payload of the call w is handling / handled last
    loc,        \* loc[w]: the handler's local variables
    resp        \* resp[w]: the response of w's last finished call

vars == <<users, orders, txs, pc, req, loc, resp>>

----------------------------------------------------------------------------
(* Bounds *)

MaxItems == 2       \* longest cart enumerated
MaxOrders == 3      \* checkouts are not started once this many orders exist
MaxUsers == 2       \* create_user is not started once this many users exist

Workers == {"w1", "w2"}

----------------------------------------------------------------------------
(* Identifiers *)

MalformedId == <<"malformed", 0>>

Oid(coll, n) == <<coll, n>>

\* ObjectId() accepting every string.
WellFormed_Any(id_str) == TRUE

\* ensure_object_id: TRUE iff ObjectId(id_str) does not raise.
WellFormed(id_str) == id_str[1] # "malformed"

\* collection.find_one({"_id": oid}): the documents with that _id.
FindById(coll, oid) == {i \in 1..Len(coll) : coll[i]._id = oid}

\* create_document(collection, data) returns str(inserted_id).
NextId(name, coll) == Oid(name, Len(coll) + 1)

----------------------------------------------------------------------------
(* Catalogue: two of the products seed_products inserts. *)

Products ==
    << [_id |-> Oid("product", 1), title |-> "Classic Vanilla Cake", price |-> 2499],
       [_id |-> Oid("product", 2), title |-> "Strawberry Shortcake", price |-> 2750] >>

----------------------------------------------------------------------------
(* Arithmetic of the handler *)

Max(a, b) == IF a >= b THEN a ELSE b

\* Python int(x) on a float: truncation toward zero (x in cents).
IntOf(c) == IF c >= 0 THEN c \div 100 ELSE -((-c) \div 100)

\* Rounding to the nearest block instead of down.
Blocks_Nearest(redeem) == (redeem + 50) \div 100

\* Python floor division by 100 (TLA+ \div floors as Python // does).
Blocks(redeem) == redeem \div 100

\* The cart loop, lines 112-128: the first item that fails decides the error.
RECURSIVE PriceCart(_, _, _, _)
PriceCart(cart, i, items, subtotal) ==
    IF i > Len(cart)
    THEN [detail |-> "ok", items |-> items, subtotal |-> subtotal]
    ELSE LET ci == cart[i]
         IN  IF ~WellFormed(ci.product_id)
             THEN [detail |-> "Invalid id format", items |-> <<>>, subtotal |-> 0]
             ELSE LET found == FindById(Products, ci.product_id)
                  IN  IF found = {}
                      THEN [detail |-> "Product not found", items |-> <<>>, subtotal |-> 0]
                      ELSE LET prod == Products[CHOOSE k \in found : TRUE]
                               line == [product_id |-> ci.product_id,
                                        title |-> prod.title,
                                        quantity |-> ci.quantity,
                                        unit_price |-> prod.price,
                                        variant |-> ci.variant]
                           IN  PriceCart(cart, i + 1, Append(items, line),
                                         subtotal + prod.price * ci.quantity)

\* Line 134: negative requests count as zero.
Redeem(redeem_points) == Max(0, redeem_points)

\* The comparison off by one: a request equal to the balance is refused.
NotEnoughPoints_AtBalance(redeem, balance) == redeem >= balance

\* Line 139: the redemption is refused when it exceeds the stored balance.
NotEnoughPoints(redeem, balance) == redeem > balance

\* Lines 142-143: points redeem in blocks of 100, each worth 5 currency units.
Discount(redeem) == Blocks(redeem) * 5
PointsRedeemed(redeem) == Blocks(redeem) * 100

\* Line 131: one point per whole currency unit of the subtotal.
PointsEarn(subtotal) == IntOf(subtotal)

\* A total that is not clamped at zero.
Total_NoClamp(subtotal, discount) == subtotal - discount * 100

\* Line 144: total = max(0.0, subtotal - discount), in cents.
Total(subtotal, discount) == Max(0, subtotal - discount * 100)

\* The earned points left out of the new balance.
NewBalance_NoEarn(balance, points_redeemed, points_earn) ==
    balance - points_redeemed

\* Line 159.
NewBalance(balance, points_redeemed, points_earn) ==
    balance - points_redeemed + points_earn

\* The user looked up before the cart is priced.
CheckoutOutcome_UserFirst(r, us) ==
    LET priced == PriceCart(r.items, 1, <<>>, 0)
        found == FindById(us, r.user_id)
    IN  IF ~WellFormed(r.user_id) THEN "Invalid id format"
        ELSE IF found = {} THEN "User not found"
        ELSE IF priced.detail # "ok" THEN priced.detail
        ELSE IF NotEnoughPoints(Redeem(r.redeem_points),
                                us[CHOOSE k \in found : TRUE].loyalty_points)
             THEN "Not enough points"
        ELSE "ok"

\* Lines 112-140 as the outcome they reach against the user collection `us`:
\* the detail of the HTTPException raised, or "ok".
CheckoutOutcome(r, us) ==
    LET priced == PriceCart(r.items, 1, <<>>, 0)
        found == FindById(us, r.user_id)
    IN  IF priced.detail # "ok" THEN priced.detail
        ELSE IF ~WellFormed(r.user_id) THEN "Invalid id format"
        ELSE IF found = {} THEN "User not found"
        ELSE IF NotEnoughPoints(Redeem(r.redeem_points),
                                us[CHOOSE k \in found : TRUE].loyalty_points)
             THEN "Not enough points"
        ELSE "ok"

\* Lines 146-155.
OrderDoc(r, priced, redeem) ==
    [user_id |-> r.user_id,
     items |-> priced.items,
     subtotal |-> priced.subtotal,
     discount |-> Discount(redeem) * 100,
     total |-> Total(priced.subtotal, Discount(redeem)),
     points_earned |-> PointsEarn(priced.subtotal),
     points_redeemed |-> PointsRedeemed(redeem),
     status |-> "placed"]

----------------------------------------------------------------------------
(* State *)

NoReq == [kind |-> "none"]
NoResp == [code |-> 0]
NoLoc == [at |-> "none"]

Error(detail) == [code |-> 400, detail |-> detail]

TypeOK ==
    /\ pc \in [Workers -> {"idle", "insert_order", "update_balance",
                           "log_redeem", "log_earn", "insert_user"}]
    /\ \A i \in 1..Len(users) : users[i].loyalty_points \in Int
    /\ \A i \in 1..Len(orders) : orders[i].status = "placed"
    /\ \A i \in 1..Len(txs) : txs[i].type \in {"earn", "redeem"}

InitWorkers ==
    /\ pc = [w \in Workers |-> "idle"]
    /\ req = [w \in Workers |-> NoReq]
    /\ loc = [w \in Workers |-> NoLoc]
    /\ resp = [w \in Workers |-> NoResp]

\* A user document as create_user writes it (lines 70-77).
UserDoc(n, email, points) ==
    [_id |-> Oid("user", n), email |-> email, loyalty_points |-> points]

----------------------------------------------------------------------------
(* POST /api/checkout, lines 109-180 *)

\* Lines 118, 31, 137, 140: raise HTTPException(400, detail); nothing is stored.
Checkout_Reject(w, detail) ==
    /\ resp' = [resp EXCEPT ![w] = Error(detail)]
    /\ loc' = [loc EXCEPT ![w] = NoLoc]
    /\ UNCHANGED <<pc, users, orders, txs>>

\* The balance settled as soon as the redemption is validated, before the
\* order is inserted.
Checkout_Accept_UpdateFirst(w, r) ==
    LET priced == PriceCart(r.items, 1, <<>>, 0)
        redeem == Redeem(r.redeem_points)
        user == users[CHOOSE k \in FindById(users, r.user_id) : TRUE]
        doc == OrderDoc(r, priced, redeem)
        new_balance == NewBalance(user.loyalty_points, doc.points_redeemed,
                                  doc.points_earned)
    IN  /\ loc' = [loc EXCEPT ![w] =
                     [at |-> "checkout",
                      user_oid |-> user._id,
                      balance |-> user.loyalty_points,
                      order_doc |-> doc,
                      order_id |-> MalformedId,
                      new_balance |-> new_balance]]
        /\ users' = [i \in 1..Len(users) |->
                       IF users[i]._id = user._id
                       THEN [users[i] EXCEPT !.loyalty_points = new_balance]
                       ELSE users[i]]
        /\ pc' = [pc EXCEPT ![w] = "insert_order"]
        /\ resp' = [resp EXCEPT ![w] = NoResp]
        /\ UNCHANGED <<orders, txs>>

\* Lines 138-155: keep the balance read at line 135 and build the order.
Checkout_Accept(w, r) ==
    LET priced == PriceCart(r.items, 1, <<>>, 0)
        redeem == Redeem(r.redeem_points)
        user == users[CHOOSE k \in FindById(users, r.user_id) : TRUE]
    IN  /\ loc' = [loc EXCEPT ![w] =
                     [at |-> "checkout",
                      user_oid |-> user._id,
                      balance |-> user.loyalty_points,
                      order_doc |-> OrderDoc(r, priced, redeem),
                      order_id |-> MalformedId,
                      new_balance |-> 0]]
        /\ pc' = [pc EXCEPT ![w] = "insert_order"]
        /\ resp' = [resp EXCEPT ![w] = NoResp]
        /\ UNCHANGED <<users, orders, txs>>

\* The balance check made after the order insert: a refused redemption leaves
\* the order behind.
Checkout_Begin_InsertFirst(w, r) ==
    /\ pc[w] = "idle"
    /\ req' = [req EXCEPT ![w] = r]
    /\ LET outcome == CheckoutOutcome(r, users)
       IN  IF outcome = "Not enough points"
           THEN /\ resp' = [resp EXCEPT ![w] = Error(outcome)]
                /\ loc' = [loc EXCEPT ![w] = NoLoc]
                /\ orders' = Append(orders, [_id |-> NextId("order", orders)]
                                 @@ OrderDoc(r, PriceCart(r.items, 1, <<>>, 0),
                                             Redeem(r.redeem_points)))
                /\ UNCHANGED <<pc, users, txs>>
           ELSE IF outcome # "ok" THEN Checkout_Reject(w, outcome)
           ELSE Checkout_Accept(w, r)

\* Lines 110-155: price the cart, validate the redemption against the balance
\* read from the store, build the order document.  The only shared state read
\* is the user document (line 135); the catalogue is not written by any
\* handler modelled here, so the step is atomic at that read.
Checkout_Begin(w, r) ==
    /\ pc[w] = "idle"
    /\ req' = [req EXCEPT ![w] = r]
    /\ LET outcome == CheckoutOutcome(r, users)
       IN  IF outcome # "ok" THEN Checkout_Reject(w, outcome)
           ELSE Checkout_Accept(w, r)

\* The order written as an upsert keyed by the user: a user's earlier order is
\* replaced, and its id reused.
Checkout_InsertOrder_Upsert(w) ==
    /\ pc[w] = "insert_order"
    /\ LET same == {i \in 1..Len(orders) : orders[i].user_id = loc[w].order_doc.user_id}
       IN  IF same = {}
           THEN LET oid == NextId("order", orders)
                IN  /\ orders' = Append(orders, [_id |-> oid] @@ loc[w].order_doc)
                    /\ loc' = [loc EXCEPT ![w].order_id = oid]
           ELSE LET k == CHOOSE i \in same : TRUE
                IN  /\ orders' = [orders EXCEPT
                                    ![k] = [_id |-> orders[k]._id] @@ loc[w].order_doc]
                    /\ loc' = [loc EXCEPT ![w].order_id = orders[k]._id]
    /\ pc' = [pc EXCEPT ![w] = "update_balance"]
    /\ UNCHANGED <<users, txs, req, resp>>

\* Line 156: order_id = create_document("order", order_doc).
Checkout_InsertOrder(w) ==
    /\ pc[w] = "insert_order"
    /\ LET oid == NextId("order", orders)
       IN  /\ orders' = Append(orders, [_id |-> oid] @@ loc[w].order_doc)
           /\ loc' = [loc EXCEPT ![w].order_id = oid]
    /\ pc' = [pc EXCEPT ![w] = "update_balance"]
    /\ UNCHANGED <<users, txs, req, resp>>

\* The update as an atomic increment of the stored balance ($inc) by the
\* checkout's own delta.
Checkout_UpdateBalance_Inc(w) ==
    /\ pc[w] = "update_balance"
    /\ LET delta == NewBalance(0, loc[w].order_doc.points_redeemed,
                               loc[w].order_doc.points_earned)
           k == CHOOSE i \in 1..Len(users) : users[i]._id = loc[w].user_oid
       IN  /\ users' = [users EXCEPT ![k].loyalty_points = @ + delta]
           /\ loc' = [loc EXCEPT ![w].new_balance = loc[w].balance + delta]
    /\ pc' = [pc EXCEPT ![w] = "log_redeem"]
    /\ UNCHANGED <<orders, txs, req, resp>>

\* The update issued without its {"_id": ...} filter: every user is set.
Checkout_UpdateBalance_Many(w) ==
    /\ pc[w] = "update_balance"
    /\ LET new_balance == NewBalance(loc[w].balance,
                                     loc[w].order_doc.points_redeemed,
                                     loc[w].order_doc.points_earned)
       IN  /\ users' = [i \in 1..Len(users) |->
                          [users[i] EXCEPT !.loyalty_points = new_balance]]
           /\ loc' = [loc EXCEPT ![w].new_balance = new_balance]
    /\ pc' = [pc EXCEPT ![w] = "log_redeem"]
    /\ UNCHANGED <<orders, txs, req, resp>>

\* Lines 159-160: new_balance from the balance read at line 138, then $set.
Checkout_UpdateBalance(w) ==
    /\ pc[w] = "update_balance"
    /\ LET new_balance == NewBalance(loc[w].balance,
                                     loc[w].order_doc.points_redeemed,
                                     loc[w].order_doc.points_earned)
       IN  /\ users' = [i \in 1..Len(users) |->
                          IF users[i]._id = loc[w].user_oid
                          THEN [users[i] EXCEPT !.loyalty_points = new_balance]
                          ELSE users[i]]
           /\ loc' = [loc EXCEPT ![w].new_balance = new_balance]
    /\ pc' = [pc EXCEPT ![w] = "log_redeem"]
    /\ UNCHANGED <<orders, txs, req, resp>>

\* The redeem entry written without the points_redeemed > 0 guard.
Checkout_LogRedeem_Always(w) ==
    /\ pc[w] = "log_redeem"
    /\ txs' = Append(txs, [_id |-> NextId("loyaltytransaction", txs),
                           user_id |-> req[w].user_id,
                           order_id |-> loc[w].order_id,
                           type |-> "redeem",
                           points |-> -loc[w].order_doc.points_redeemed])
    /\ pc' = [pc EXCEPT ![w] = "log_earn"]
    /\ UNCHANGED <<users, orders, req, loc, resp>>

\* Lines 163-170.
Checkout_LogRedeem(w) ==
    /\ pc[w] = "log_redeem"
    /\ LET points_redeemed == loc[w].order_doc.points_redeemed
       IN  IF points_redeemed > 0
           THEN txs' = Append(txs, [_id |-> NextId("loyaltytransaction", txs),
                                    user_id |-> req[w].user_id,
                                    order_id |-> loc[w].order_id,
                                    type |-> "redeem",
                                    points |-> -points_redeemed])
           ELSE txs' = txs
    /\ pc' = [pc EXCEPT ![w] = "log_earn"]
    /\ UNCHANGED <<users, orders, req, loc, resp>>

\* The earn entry linked to the order stored last instead of the checkout's own.
Checkout_LogEarn_LastOrder(w) ==
    /\ pc[w] = "log_earn"
    /\ LET points_earn == loc[w].order_doc.points_earned
       IN  IF points_earn > 0
           THEN txs' = Append(txs, [_id |-> NextId("loyaltytransaction", txs),
                                    user_id |-> req[w].user_id,
                                    order_id |-> orders[Len(orders)]._id,
                                    type |-> "earn",
                                    points |-> points_earn])
           ELSE txs' = txs
    /\ resp' = [resp EXCEPT ![w] =
                  [code |-> 200,
                   order_id |-> loc[w].order_id,
                   total |-> loc[w].order_doc.total,
                   points_earned |-> loc[w].order_doc.points_earned,
                   points_redeemed |-> loc[w].order_doc.points_redeemed,
                   new_balance |-> loc[w].new_balance]]
    /\ pc' = [pc EXCEPT ![w] = "idle"]
    /\ loc' = [loc EXCEPT ![w] = NoLoc]
    /\ UNCHANGED <<users, orders, req>>

\* Lines 171-180: the earn entry, then the response.
Checkout_LogEarn(w) ==
    /\ pc[w] = "log_earn"
    /\ LET points_earn == loc[w].order_doc.points_earned
       IN  IF points_earn > 0
           THEN txs' = Append(txs, [_id |-> NextId("loyaltytransaction", txs),
                                    user_id |-> req[w].user_id,
                                    order_id |-> loc[w].order_id,
                                    type |-> "earn",
                                    points |-> points_earn])
           ELSE txs' = txs
    /\ resp' = [resp EXCEPT ![w] =
                  [code |-> 200,
                   order_id |-> loc[w].order_id,
                   total |-> loc[w].order_doc.total,
                   points_earned |-> loc[w].order_doc.points_earned,
                   points_redeemed |-> loc[w].order_doc.points_redeemed,
                   new_balance |-> loc[w].new_balance]]
    /\ pc' = [pc EXCEPT ![w] = "idle"]
    /\ loc' = [loc EXCEPT ![w] = NoLoc]
    /\ UNCHANGED <<users, orders, req>>

\* The reply to a call whose handler raised an exception it does not catch.
ServerError == [code |-> 500, detail |-> "Internal Server Error"]

\* The call of worker w ends with an uncaught exception: nothing is undone.
Checkout_Raise(w) ==
    /\ resp' = [resp EXCEPT ![w] = ServerError]
    /\ pc' = [pc EXCEPT ![w] = "idle"]
    /\ loc' = [loc EXCEPT ![w] = NoLoc]
    /\ UNCHANGED <<users, orders, txs, req>>

\* A failed balance update answered by deleting the order again.
Checkout_UpdateFailure_Rollback(w) ==
    /\ pc[w] = "update_balance"
    /\ orders' = SelectSeq(orders, LAMBDA o : o._id # loc[w].order_id)
    /\ resp' = [resp EXCEPT ![w] = ServerError]
    /\ pc' = [pc EXCEPT ![w] = "idle"]
    /\ loc' = [loc EXCEPT ![w] = NoLoc]
    /\ UNCHANGED <<users, txs, req>>

\* Line 160 fails: update_one raises, and checkout has no handler around it.
Checkout_UpdateFailure(w) ==
    /\ pc[w] = "update_balance"
    /\ Checkout_Raise(w)

\* Line 156, 164 or 172 fails: create_document raises. The ledger calls are
\* made only under their guards (lines 163, 171).
Checkout_CreateDocumentFailure(w) ==
    /\ \/ pc[w] = "insert_order"
       \/ pc[w] = "log_redeem" /\ loc[w].order_doc.points_redeemed > 0
       \/ pc[w] = "log_earn" /\ loc[w].order_doc.points_earned > 0
    /\ Checkout_Raise(w)

----------------------------------------------------------------------------
(* POST /api/users, lines 65-78 *)

\* The user written as an upsert keyed by the email: an existing user's
\* document is overwritten with the new data, balance 0 included.
CreateUser_Find_Upsert(w, r) ==
    /\ pc[w] = "idle"
    /\ req' = [req EXCEPT ![w] = r]
    /\ LET existing == {i \in 1..Len(users) : users[i].email = r.email}
       IN  IF existing # {}
           THEN LET k == CHOOSE i \in existing : \A j \in existing : i <= j
                IN  /\ users' = [users EXCEPT ![k].loyalty_points = 0]
                    /\ resp' = [resp EXCEPT ![w] =
                                  [code |-> 200, _id |-> users[k]._id,
                                   email |-> users[k].email, loyalty_points |-> 0]]
                    /\ UNCHANGED <<pc, loc>>
           ELSE /\ pc' = [pc EXCEPT ![w] = "insert_user"]
                /\ loc' = [loc EXCEPT ![w] = [at |-> "create_user"]]
                /\ resp' = [resp EXCEPT ![w] = NoResp]
                /\ users' = users
    /\ UNCHANGED <<orders, txs>>

\* Lines 67-69: look the email up; an existing user is returned as stored.
CreateUser_Find(w, r) ==
    /\ pc[w] = "idle"
    /\ req' = [req EXCEPT ![w] = r]
    /\ LET existing == {i \in 1..Len(users) : users[i].email = r.email}
       IN  IF existing # {}
           THEN LET u == users[CHOOSE i \in existing : \A j \in existing : i <= j]
                IN  /\ resp' = [resp EXCEPT ![w] =
                                  [code |-> 200, _id |-> u._id, email |-> u.email,
                                   loyalty_points |-> u.loyalty_points]]
                    /\ UNCHANGED <<pc, loc>>
           ELSE /\ pc' = [pc EXCEPT ![w] = "insert_user"]
                /\ loc' = [loc EXCEPT ![w] = [at |-> "create_user"]]
                /\ resp' = [resp EXCEPT ![w] = NoResp]
    /\ UNCHANGED <<users, orders, txs>>

\* Lines 70-78: insert with balance 0 and return the new document.
CreateUser_Insert(w) ==
    /\ pc[w] = "insert_user"
    /\ LET doc == UserDoc(Len(users) + 1, req[w].email, 0)
       IN  /\ users' = Append(users, doc)
           /\ resp' = [resp EXCEPT ![w] =
                         [code |-> 200, _id |-> doc._id, email |-> doc.email,
                          loyalty_points |-> doc.loyalty_points]]
    /\ pc' = [pc EXCEPT ![w] = "idle"]
    /\ loc' = [loc EXCEPT ![w] = NoLoc]
    /\ UNCHANGED <<orders, txs, req>>

\* GET /api/users/{user_id}/loyalty, lines 88-96 (a read; no state change).
get_loyalty(user_id) ==
    IF ~WellFormed(user_id) THEN Error("Invalid id format")
    ELSE LET found == FindById(users, user_id)
         IN  IF found = {} THEN [code |-> 404, detail |-> "User not found"]
             ELSE [code |-> 200,
                   points |-> users[CHOOSE k \in found : TRUE].loyalty_points,
                   transactions |-> SelectSeq(txs, LAMBDA t : t.user_id = user_id)]

----------------------------------------------------------------------------
(* Inputs *)

P1 == Oid("product", 1)
P2 == Oid("product", 2)
UnknownProduct == Oid("product", 9)
U1 == Oid("user", 1)
U2 == Oid("user", 2)

Qtys == {-1, 1, 2, 5}      \* CartItem.quantity is any int (line 101)
Emails == {"ann@x.org", "bob@x.org"}
InitBalances == {0, 150, 250}

Item(pid, q, v) == [product_id |-> pid, quantity |-> q, variant |-> v]

CartItems ==
    {Item(pid, q, "none") : pid \in {P1, P2}, q \in Qtys}
        \cup {Item(UnknownProduct, 1, "none"), Item(MalformedId, 1, "none"),
              Item(P1, 1, "8-inch")}

SeqsUpTo(S, n) == UNION {[1..k -> S] : k \in 0..n}

CheckoutReq(uid, cart, redeem_points) ==
    [kind |-> "checkout", user_id |-> uid, items |-> cart,
     redeem_points |-> redeem_points]

\* Every shape of request: carts of up to MaxItems items, a stored, an unknown
\* and a malformed user id, redemptions around the block and balance borders.
Requests ==
    {CheckoutReq(uid, cart, rp) :
        uid \in {U1, U2, MalformedId},
        cart \in SeqsUpTo(CartItems, MaxItems),
        rp \in {-100, 0, 99, 100, 120, 150, 151, 250}}

\* The requests of the system specifications: carts of at most one line.
SysRequests ==
    {CheckoutReq(uid, cart, rp) :
        uid \in {U1, U2},
        cart \in SeqsUpTo({Item(P1, q, "none") : q \in {-1, 1, 5}}, 1),
        rp \in {0, 100}}

UserReqs == {[kind |-> "create_user", email |-> e] : e \in Emails}

----------------------------------------------------------------------------
(* Specifications *)

\* An empty database.
InitFresh ==
    /\ users = <<>> /\ orders = <<>> /\ txs = <<>>
    /\ InitWorkers

\* A database holding one account with some balance and no order yet.
InitStored ==
    /\ \E b \in InitBalances : users = <<UserDoc(1, "ann@x.org", b)>>
    /\ orders = <<>> /\ txs = <<>>
    /\ InitWorkers

\* A database holding two accounts.
InitPair ==
    /\ \E b1, b2 \in InitBalances :
          users = <<UserDoc(1, "ann@x.org", b1), UserDoc(2, "bob@x.org", b2)>>
    /\ orders = <<>> /\ txs = <<>>
    /\ InitWorkers

Init == InitFresh \/ InitStored \/ InitPair

CheckoutSteps(w) ==
    \/ Checkout_InsertOrder(w)
    \/ Checkout_UpdateBalance(w)
    \/ Checkout_LogRedeem(w)
    \/ Checkout_LogEarn(w)

\* Concurrent calls, one per request worker (FastAPI runs `def` handlers on a
\* thread pool), interleaved at their database calls.
Next ==
    \E w \in Workers :
        \/ req[w] = NoReq /\ \E r \in SysRequests : Checkout_Begin(w, r)
        \/ CheckoutSteps(w)
        \/ req[w] = NoReq /\ \E r \in UserReqs : CreateUser_Find(w, r)
        \/ CreateUser_Insert(w)

Spec == Init /\ [][Next]_vars

\* One call at a time, any number of them, starting from an empty database.
NextSeq ==
    \/ Len(orders) < MaxOrders /\ \E r \in SysRequests : Checkout_Begin("w1", r)
    \/ CheckoutSteps("w1")
    \/ Len(users) < MaxUsers /\ \E r \in UserReqs : CreateUser_Find("w1", r)
    \/ CreateUser_Insert("w1")

SpecSeq == InitFresh /\ [][NextSeq]_vars

\* One checkout, of any shape, against a stored account.
NextCall ==
    \/ req["w1"] = NoReq /\ \E r \in Requests : Checkout_Begin("w1", r)
    \/ CheckoutSteps("w1")

SpecCall == InitStored /\ [][NextCall]_vars

\* Concurrent checkouts against a stored account, whose storage calls may fail.
NextFail ==
    \E w \in Workers :
        \/ req[w] = NoReq /\ \E r \in SysRequests : Checkout_Begin(w, r)
        \/ CheckoutSteps(w)
        \/ Checkout_UpdateFailure(w)
        \/ Checkout_CreateDocumentFailure(w)

SpecFail == InitStored /\ [][NextFail]_vars

----------------------------------------------------------------------------
(* Claims *)

Stored(uid) == users[CHOOSE k \in FindById(users, uid) : TRUE].loyalty_points

IsCheckout(w) == req[w].kind = "checkout"

\* Worker w answers a call with an error in this step.
Rejects(w) ==
    /\ resp'[w].code = 400
    /\ <<req[w], resp[w]>> # <<req'[w], resp'[w]>>

\* C1: a checkout rejected for an unknown product, an unknown user or
\* insufficient points is rejected in the first step of the call, and that
\* step leaves the users' balances, the orders and the ledger as they were.
C1_RejectedCallWritesNothing ==
    [][\A w \in Workers :
          (Rejects(w) /\ resp'[w].detail \in {"Product not found", "User not found",
                                              "Not enough points"})
              => /\ pc[w] = "idle" /\ pc'[w] = "idle"
                 /\ UNCHANGED <<users, orders, txs>>]_vars

\* C1 witness: a redemption of 151 against a stored balance of 150 was refused.
C1_Witness ==
    /\ resp["w1"] = Error("Not enough points")
    /\ req["w1"].redeem_points = 151
    /\ Stored(req["w1"].user_id) = 150
    /\ orders = <<>> /\ txs = <<>>

\* C2: every stored loyalty-point balance is an integer >= 0.
C2_BalanceNeverNegative ==
    \A i \in 1..Len(users) : users[i].loyalty_points \in Nat

RECURSIVE SumPoints(_)
SumPoints(ts) == IF ts = <<>> THEN 0 ELSE Head(ts).points + SumPoints(Tail(ts))

\* The sum of the points deltas of a user's loyalty transactions.
LedgerSum(uid) == SumPoints(SelectSeq(txs, LAMBDA t : t.user_id = uid))

\* C3: starting from an empty database, whenever no call is in progress the
\* deltas of each user's loyalty transactions sum to the user's stored balance,
\* which is the points value get_loyalty reports.
C3_LedgerSumIsBalance ==
    pc["w1"] = "idle" =>
        \A i \in 1..Len(users) :
            /\ LedgerSum(users[i]._id) = users[i].loyalty_points
            /\ get_loyalty(users[i]._id).points = users[i].loyalty_points

\* Worker w has finished a checkout successfully.
Succeeded(w) == IsCheckout(w) /\ resp[w].code = 200

\* The balance a finished checkout read, recovered from its response.
BalanceRead(w) ==
    resp[w].new_balance + resp[w].points_redeemed - resp[w].points_earned

LinkedTxs(w, type) ==
    SelectSeq(txs, LAMBDA t : t.order_id = resp[w].order_id /\ t.type = type)

\* C4: when two checkouts for the same user have both succeeded after reading
\* the same balance, both orders and all their ledger entries are stored, and
\* the stored balance is the new balance one of the two computed: it carries
\* one checkout's delta only.
C4_OneDeltaSurvives ==
    \A v, w \in Workers :
        (v # w /\ Succeeded(v) /\ Succeeded(w)
             /\ req[v].user_id = req[w].user_id /\ BalanceRead(v) = BalanceRead(w))
        => /\ Stored(req[w].user_id) \in {resp[v].new_balance, resp[w].new_balance}
           /\ \A x \in {v, w} :
                /\ FindById(orders, resp[x].order_id) # {}
                /\ Len(LinkedTxs(x, "redeem")) = IF resp[x].points_redeemed > 0 THEN 1 ELSE 0
                /\ Len(LinkedTxs(x, "earn")) = IF resp[x].points_earned > 0 THEN 1 ELSE 0

\* C4 witness: both checkouts read balance 0 and earned points; the ledger
\* holds both earn entries but the stored balance is short of their sum.
C4_Witness ==
    /\ Succeeded("w1") /\ Succeeded("w2")
    /\ req["w1"].user_id = req["w2"].user_id
    /\ BalanceRead("w1") = 0 /\ BalanceRead("w2") = 0
    /\ resp["w1"].points_earned > 0 /\ resp["w2"].points_earned > 0
    /\ Len(LinkedTxs("w1", "earn")) = 1 /\ Len(LinkedTxs("w2", "earn")) = 1
    /\ LedgerSum(req["w1"].user_id) =
           resp["w1"].points_earned + resp["w2"].points_earned
    /\ Stored(req["w1"].user_id) # LedgerSum(req["w1"].user_id)
    /\ Stored(req["w1"].user_id) \in {resp["w1"].new_balance, resp["w2"].new_balance}

\* C5: with one checkout at a time, the balance update replaces the stored
\* balance b by b - points_redeemed + points_earned, and the new_balance of the
\* response is the stored balance.
C5_NewBalance ==
    [][/\ (pc["w1"] = "update_balance" /\ pc'["w1"] = "log_redeem")
            => Stored(req["w1"].user_id)' =
                   Stored(req["w1"].user_id)
                     - loc["w1"].order_doc.points_redeemed
                     + loc["w1"].order_doc.points_earned
       /\ (pc["w1"] = "log_earn" /\ pc'["w1"] = "idle")
            => /\ resp'["w1"].code = 200
               /\ resp'["w1"].new_balance = Stored(req["w1"].user_id)'
               /\ resp'["w1"].points_redeemed = loc["w1"].order_doc.points_redeemed
               /\ resp'["w1"].points_earned = loc["w1"].order_doc.points_earned]_vars

\* C5 witness: balance 150, two cakes at 24.99, 120 points requested:
\* 100 redeemed, 49 earned, new balance 99.
C5_Witness ==
    /\ Succeeded("w1")
    /\ req["w1"].items = <<Item(P1, 2, "none")>>
    /\ req["w1"].redeem_points = 120
    /\ BalanceRead("w1") = 150
    /\ orders[1].subtotal = 4998
    /\ resp["w1"].points_redeemed = 100 /\ resp["w1"].points_earned = 49
    /\ resp["w1"].new_balance = 99
    /\ Stored(req["w1"].user_id) = 99

\* What a request says, stated without the handler's own operators.
CatalogueIds == {Products[k]._id : k \in 1..Len(Products)}
Resolves(ci) == ci.product_id \in CatalogueIds
Malformed(id_str) == id_str = MalformedId
Unknown(ci) == ~Malformed(ci.product_id) /\ ~Resolves(ci)
UserStored(uid) == \E i \in 1..Len(users) : users[i]._id = uid
AllResolve(r) == \A i \in 1..Len(r.items) : Resolves(r.items[i])
Clamped(r) == IF r.redeem_points < 0 THEN 0 ELSE r.redeem_points

\* The first cart line, in order, whose product id is not a stored product's
\* (0 when every line resolves).
FirstFailing(r) ==
    LET bad == {i \in 1..Len(r.items) : ~Resolves(r.items[i])}
    IN  IF bad = {} THEN 0 ELSE CHOOSE i \in bad : \A j \in bad : i <= j

\* The step in which worker w1 receives and validates its checkout.
CallStep == req["w1"] = NoReq /\ req'["w1"].kind = "checkout"

\* C6: when all products resolve and the user exists, the call is refused for
\* points iff max(0, redeem_points) exceeds the stored balance; otherwise it
\* goes on to place the order.
C6_InsufficientIffExceeds ==
    [][LET r == req'["w1"]
       IN  (CallStep /\ AllResolve(r) /\ UserStored(r.user_id))
           => /\ (resp'["w1"].code = 400) <=> (Clamped(r) > Stored(r.user_id))
              /\ resp'["w1"].code = 400 => resp'["w1"] = Error("Not enough points")
              /\ resp'["w1"].code # 400 => pc'["w1"] = "insert_order"]_vars

\* C6 witness: a redemption of exactly the stored balance (150) succeeded.
C6_Witness ==
    /\ Succeeded("w1")
    /\ req["w1"].redeem_points = 150
    /\ BalanceRead("w1") = 150
    /\ resp["w1"].points_redeemed = 100

\* C7: an order placed for a redemption request r >= 0 has
\* points_redeemed = (r div 100) * 100 and discount = (r div 100) * 5, so
\* points_redeemed <= r <= balance, points_redeemed is a multiple of 100, and
\* r < 100 redeems nothing and discounts nothing.
C7_RedemptionBlocks ==
    LET r == req["w1"].redeem_points
    IN  (IsCheckout("w1") /\ r >= 0) =>
          /\ \A i \in 1..Len(orders) :
                /\ orders[i].points_redeemed = (r \div 100) * 100
                /\ orders[i].discount = (r \div 100) * 5 * 100
                /\ orders[i].points_redeemed <= r
                /\ orders[i].points_redeemed % 100 = 0
                /\ r < 100 => orders[i].points_redeemed = 0 /\ orders[i].discount = 0
          /\ pc["w1"] \in {"insert_order", "update_balance"}
                => r <= Stored(req["w1"].user_id)
          /\ Succeeded("w1") =>
                resp["w1"].points_redeemed = (r \div 100) * 100

\* C7 witness: 250 points requested against a balance of 250: the order placed
\* redeems 200 points for a discount of 10.
C7_Witness ==
    /\ pc["w1"] = "update_balance"
    /\ req["w1"].redeem_points = 250
    /\ Stored(req["w1"].user_id) = 250
    /\ Len(orders) = 1
    /\ orders[1].points_redeemed = 200
    /\ orders[1].discount = 1000

\* C8: a checkout that has succeeded has stored exactly one order, and the
\* ledger holds exactly: one redeem entry of -points_redeemed iff
\* points_redeemed > 0, one earn entry of +points_earned iff points_earned > 0,
\* each linked to that order and to the request's user.
C8_OneOrderAndItsEntries ==
    Succeeded("w1") =>
        LET redeems == SelectSeq(txs, LAMBDA t : t.type = "redeem")
            earns == SelectSeq(txs, LAMBDA t : t.type = "earn")
        IN  /\ Len(orders) = 1
            /\ orders[1]._id = resp["w1"].order_id
            /\ orders[1].user_id = req["w1"].user_id
            /\ Len(redeems) = IF orders[1].points_redeemed > 0 THEN 1 ELSE 0
            /\ Len(earns) = IF orders[1].points_earned > 0 THEN 1 ELSE 0
            /\ Len(txs) = Len(redeems) + Len(earns)
            /\ \A i \in 1..Len(txs) :
                  /\ txs[i].order_id = orders[1]._id
                  /\ txs[i].user_id = req["w1"].user_id
                  /\ txs[i].points = IF txs[i].type = "redeem"
                                     THEN -orders[1].points_redeemed
                                     ELSE orders[1].points_earned

\* C8 witness: a checkout that redeemed 100 and earned 49 left exactly the
\* entries redeem(-100), earn(+49).
C8_Witness ==
    /\ Succeeded("w1")
    /\ Len(orders) = 1 /\ Len(txs) = 2
    /\ txs[1].type = "redeem" /\ txs[1].points = -100
    /\ txs[2].type = "earn" /\ txs[2].points = 49

\* C9 as claimed: a cart item naming an unknown product fails the call with
\* product-not-found whatever else the request holds; with all products
\* resolving an absent user fails it with user-not-found; with the user stored
\* the only rejection is for points.
C9_AsClaimed ==
    LET r == req["w1"]
    IN  IsCheckout("w1") =>
          /\ (\E i \in 1..Len(r.items) : Unknown(r.items[i]))
                => resp["w1"] = Error("Product not found")
          /\ (AllResolve(r) /\ ~Malformed(r.user_id) /\ ~UserStored(r.user_id))
                => resp["w1"] = Error("User not found")
          /\ (AllResolve(r) /\ UserStored(r.user_id) /\ resp["w1"].code = 400)
                => resp["w1"] = Error("Not enough points")

\* The error the precedence of C9 (amended) assigns to a request, "ok" if none.
Expected(r) ==
    LET f == FirstFailing(r)
    IN  IF f # 0
        THEN IF Malformed(r.items[f].product_id) THEN "Invalid id format"
             ELSE "Product not found"
        ELSE IF Malformed(r.user_id) THEN "Invalid id format"
        ELSE IF ~UserStored(r.user_id) THEN "User not found"
        ELSE IF Clamped(r) > Stored(r.user_id) THEN "Not enough points"
        ELSE "ok"

\* C9 (amended): the cart lines are examined in order and the first one whose
\* id is malformed or whose product is unknown fails the call (invalid id
\* format, product not found) whatever the later lines, the user id and the
\* redeem amount; only when all products resolve is the user id examined
\* (invalid id format, user not found); only when the user exists is the
\* redemption checked against the balance.
C9_Precedence ==
    [][CallStep =>
          LET e == Expected(req'["w1"])
          IN  IF e = "ok"
              THEN resp'["w1"].code # 400 /\ pc'["w1"] = "insert_order"
              ELSE resp'["w1"] = Error(e) /\ pc'["w1"] = "idle"]_vars

\* C9 witness: an unknown product with a malformed user id and a redemption
\* above every balance is reported as product-not-found.
C9_Witness ==
    /\ resp["w1"] = Error("Product not found")
    /\ req["w1"].items = <<Item(P1, 1, "none"), Item(UnknownProduct, 1, "none")>>
    /\ req["w1"].user_id = MalformedId
    /\ req["w1"].redeem_points = 250

HasMalformed(r) ==
    \/ Malformed(r.user_id)
    \/ \E i \in 1..Len(r.items) : Malformed(r.items[i].product_id)

\* C10 as claimed: a request holding a malformed identifier is rejected with
\* the invalid-id-format error.
C10_AsClaimed ==
    (IsCheckout("w1") /\ HasMalformed(req["w1"]))
        => resp["w1"] = Error("Invalid id format")

\* C10 (amended): a request holding a malformed identifier is always rejected,
\* and never with user-not-found: with product-not-found when a cart line
\* naming an unknown product stands before every malformed identifier in
\* processing order (cart lines in order, then the user id), with
\* invalid-id-format otherwise; product-not-found always names a well-formed id.
C10_MalformedRejected ==
    LET r == req["w1"]
        f == FirstFailing(r)
    IN  (IsCheckout("w1") /\ HasMalformed(r)) =>
          /\ resp["w1"].code = 400
          /\ resp["w1"].detail =
                IF f # 0 /\ Unknown(r.items[f]) THEN "Product not found"
                ELSE "Invalid id format"

\* C10 witness: a malformed product id after a resolving line, with a user id
\* that is not stored, is reported as invalid id format.
C10_Witness ==
    /\ resp["w1"] = Error("Invalid id format")
    /\ req["w1"].items = <<Item(P1, 1, "none"), Item(MalformedId, 1, "none")>>
    /\ req["w1"].user_id = U2

\* The whole currency units below an amount of cents: floor(amount / 100).
Floor(c) == c \div 100

\* C11: every order the checkout places carries points_earned = floor(subtotal)
\* of its pre-discount subtotal, whatever its discount and points redeemed.
C11_EarnIsFloor ==
    \A i \in 1..Len(orders) : orders[i].points_earned = Floor(orders[i].subtotal)

\* The sum over the lines of an order of unit_price * quantity.
RECURSIVE LineSum(_)
LineSum(items) ==
    IF items = <<>> THEN 0
    ELSE Head(items).unit_price * Head(items).quantity + LineSum(Tail(items))

\* The base price of a catalogue product.
BasePrice(pid) == Products[CHOOSE k \in FindById(Products, pid) : TRUE].price

\* C12: every stored order has subtotal = the sum over its lines of
\* unit_price * quantity, each line's unit_price being the product's base price
\* whatever the line's variant, and total = max(0, subtotal - discount) >= 0.
C12_SubtotalAndTotal ==
    \A i \in 1..Len(orders) :
        LET o == orders[i]
        IN  /\ o.subtotal = LineSum(o.items)
            /\ \A k \in 1..Len(o.items) :
                   o.items[k].unit_price = BasePrice(o.items[k].product_id)
            /\ o.total = (IF o.subtotal - o.discount >= 0
                          THEN o.subtotal - o.discount ELSE 0)
            /\ o.total >= 0

\* C12 witness: a stored order of two lines, the first with a variant, priced
\* at the base prices, with a discount of two redemption blocks.
C12_Witness ==
    \E i \in 1..Len(orders) :
        LET o == orders[i]
        IN  /\ Len(o.items) = 2
            /\ o.items[1].variant = "8-inch" /\ o.items[1].unit_price = 2499
            /\ o.items[2].product_id = P2 /\ o.items[2].quantity = 2
            /\ o.subtotal = 7999 /\ o.discount = 1000 /\ o.total = 6999

\* The writes worker w's checkout has made once its order is inserted: the
\* order is stored, and so are the ledger entries of the steps behind it.
WritesInPlace(w, os, ts) ==
    /\ FindById(os, loc[w].order_id) # {}
    /\ (pc[w] = "log_earn" /\ loc[w].order_doc.points_redeemed > 0)
           => \E k \in 1..Len(ts) : /\ ts[k].order_id = loc[w].order_id
                                    /\ ts[k].type = "redeem"

\* C13: a checkout whose order is inserted ends either with every remaining
\* write made and a success reply, or, when a storage call fails at the balance
\* update or at a ledger append, with a failure reply and the orders, balances
\* and ledger exactly as the failing step found them: nothing is rolled back.
C13_FailureAfterInsert ==
    [][\A w \in Workers :
          (pc[w] \in {"update_balance", "log_redeem", "log_earn"} /\ pc'[w] = "idle")
              => /\ WritesInPlace(w, orders, txs) /\ WritesInPlace(w, orders', txs')
                 /\ \/ /\ resp'[w].code = 200
                       /\ pc[w] = "log_earn"
                       /\ Len(txs') = Len(txs)
                              + (IF loc[w].order_doc.points_earned > 0 THEN 1 ELSE 0)
                    \/ /\ resp'[w].code = 500
                       /\ UNCHANGED <<users, orders, txs>>]_vars

\* C13 witness: the earn append failed after the balance update: the call is
\* answered 500 while the order and the new balance of 174 stay stored and the
\* ledger is empty.
C13_Witness ==
    /\ resp["w1"] = ServerError
    /\ req["w1"].kind = "checkout" /\ req["w1"].redeem_points = 0
    /\ req["w2"] = NoReq
    /\ Len(orders) = 1 /\ orders[1].points_earned = 24
    /\ Stored(U1) = 174
    /\ txs = <<>>

\* The order lines a request asks for, as the order stores them.
RequestedLines(r) == PriceCart(r.items, 1, <<>>, 0).items

\* The ledger entry a finished checkout of worker w must have written.
OwnEntry(w, type, points) ==
    \A k \in 1..Len(LinkedTxs(w, type)) :
        /\ LinkedTxs(w, type)[k].user_id = req[w].user_id
        /\ LinkedTxs(w, type)[k].points = points

\* C14: under every interleaving of checkouts, each checkout that has completed
\* has exactly one order of its own in the store, carrying its user, its lines
\* and its points, and exactly the ledger entries it wrote, linked to that order
\* and to its user; no two checkouts share an order.
C14_NoWriteLost ==
    \A w \in Workers :
        Succeeded(w) =>
            /\ Cardinality(FindById(orders, resp[w].order_id)) = 1
            /\ LET o == orders[CHOOSE k \in FindById(orders, resp[w].order_id) : TRUE]
               IN  /\ o.user_id = req[w].user_id
                   /\ o.items = RequestedLines(req[w])
                   /\ o.points_earned = resp[w].points_earned
                   /\ o.points_redeemed = resp[w].points_redeemed
            /\ Len(LinkedTxs(w, "redeem")) = (IF resp[w].points_redeemed > 0 THEN 1 ELSE 0)
            /\ Len(LinkedTxs(w, "earn")) = (IF resp[w].points_earned > 0 THEN 1 ELSE 0)
            /\ OwnEntry(w, "redeem", -resp[w].points_redeemed)
            /\ OwnEntry(w, "earn", resp[w].points_earned)
            /\ \A v \in Workers \ {w} :
                   Succeeded(v) => resp[v].order_id # resp[w].order_id

\* C14 witness: two checkouts of different users have interleaved - the second
\* worker inserted its order first, the first worker logged first - and the
\* store holds both orders and all four ledger entries.
C14_Witness ==
    /\ Succeeded("w1") /\ Succeeded("w2")
    /\ req["w1"].user_id = U1 /\ req["w2"].user_id = U2
    /\ Len(orders) = 2 /\ Len(txs) = 4
    /\ orders[1]._id = resp["w2"].order_id /\ orders[2]._id = resp["w1"].order_id
    /\ txs[1].order_id = resp["w1"].order_id
    /\ txs[4].order_id = resp["w1"].order_id
    /\ txs[2].order_id = resp["w2"].order_id

\* Worker w takes this step, and it is a step of a checkout.
CheckoutStepOf(w) ==
    /\ <<pc[w], req[w], resp[w], loc[w]>> # <<pc'[w], req'[w], resp'[w], loc'[w]>>
    /\ req'[w].kind = "checkout"

\* Every document of the collection is still there, unchanged, after the step.
Kept(coll, coll2) ==
    /\ Len(coll2) >= Len(coll)
    /\ \A i \in 1..Len(coll) : coll2[i] = coll[i]

\* C15: no step of a checkout changes or removes a stored order or loyalty
\* transaction, and the only change it makes to the users is the loyalty_points
\* of the user its request names.
C15_AppendOnly ==
    [][\A w \in Workers :
          CheckoutStepOf(w) =>
              /\ Kept(orders, orders')
              /\ Kept(txs, txs')
              /\ Len(users') = Len(users)
              /\ \A i \in 1..Len(users) :
                     \/ users'[i] = users[i]
                     \/ /\ users[i]._id = req[w].user_id
                        /\ users'[i] = [users[i] EXCEPT
                                          !.loyalty_points = users'[i].loyalty_points]]_vars

\* C15 witness: with two users, an order and a ledger entry of another checkout
\* stored, the first worker has just replaced the balance of its own user.
C15_Witness ==
    /\ pc["w1"] = "log_redeem" /\ req["w1"].user_id = U1
    /\ Len(users) = 2 /\ Len(orders) = 2 /\ Len(txs) >= 1
    /\ txs[1].user_id = U2 /\ orders[1].user_id = U2
    /\ loc["w1"].new_balance # loc["w1"].balance
    /\ Stored(U1) = loc["w1"].new_balance
    /\ Succeeded("w2") /\ Stored(U2) = resp["w2"].new_balance

\* C16: no two stored user records have the same email.
C16_EmailsUnique ==
    \A i, j \in 1..Len(users) : users[i].email = users[j].email => i = j

\* The order of worker w's checkout is stored.
OwnOrderStored(w) == FindById(orders, loc[w].order_id) # {}

\* The ledger entries of the given type linked to worker w's order in progress.
OwnTxs(w, type) ==
    SelectSeq(txs, LAMBDA t : t.order_id = loc[w].order_id /\ t.type = type)

\* C17: a checkout makes its writes in the order insert order, update balance,
\* append redeem entry, append earn entry, and answers success after the last:
\* each write is made at its own step, the steps follow one another in that
\* order, and a balance update or a ledger append finds the checkout's order
\* stored already.
C17_WriteOrder ==
    [][\A w \in Workers :
          CheckoutStepOf(w) =>
              /\ orders' # orders
                    => /\ pc[w] = "insert_order" /\ pc'[w] = "update_balance"
                       /\ UNCHANGED <<users, txs>>
              /\ users' # users
                    => /\ pc[w] = "update_balance" /\ pc'[w] = "log_redeem"
                       /\ OwnOrderStored(w)
                       /\ OwnTxs(w, "redeem") = <<>> /\ OwnTxs(w, "earn") = <<>>
              /\ txs' # txs
                    => /\ OwnOrderStored(w)
                       /\ txs'[Len(txs')].order_id = loc[w].order_id
                       /\ \/ /\ txs'[Len(txs')].type = "redeem"
                             /\ pc[w] = "log_redeem" /\ pc'[w] = "log_earn"
                             /\ OwnTxs(w, "earn") = <<>>
                          \/ /\ txs'[Len(txs')].type = "earn"
                             /\ pc[w] = "log_earn" /\ pc'[w] = "idle"
              /\ resp'[w].code = 200 => pc[w] = "log_earn"
              /\ pc'[w] = "insert_order" => pc[w] = "idle"
              /\ pc'[w] = "update_balance" => pc[w] = "insert_order"
              /\ pc'[w] = "log_redeem" => pc[w] = "update_balance"
              /\ pc'[w] = "log_earn" => pc[w] = "log_redeem"]_vars

\* C17 witness: a checkout redeeming 100 points stands before its earn append:
\* its order is stored, the balance of 150 is replaced by 74 and the redeem
\* entry is written, the earn entry is not.
C17_Witness ==
    /\ pc["w1"] = "log_earn" /\ req["w2"] = NoReq
    /\ OwnOrderStored("w1")
    /\ loc["w1"].balance = 150 /\ loc["w1"].new_balance = 74
    /\ Stored(req["w1"].user_id) = 74
    /\ Len(OwnTxs("w1", "redeem")) = 1 /\ OwnTxs("w1", "redeem")[1].points = -100
    /\ OwnTxs("w1", "earn") = <<>>

\* C18: in every state, also in the middle of interleaved checkouts, every
\* loyalty transaction references a stored order of the same user, and its
\* points are that order's points_earned (earn) or minus its points_redeemed
\* (redeem).
C18_LedgerMatchesOrders ==
    \A k \in 1..Len(txs) :
        \E i \in 1..Len(orders) :
            /\ orders[i]._id = txs[k].order_id
            /\ orders[i].user_id = txs[k].user_id
            /\ txs[k].type = "earn" => txs[k].points = orders[i].points_earned
            /\ txs[k].type = "redeem" => txs[k].points = -orders[i].points_redeemed
            /\ txs[k].type \in {"earn", "redeem"}

\* C18 witness: two checkouts of different users are both under way, the second
\* having inserted its order last and the first having written its redeem entry.
C18_Witness ==
    /\ pc["w1"] = "log_earn" /\ pc["w2"] = "update_balance"
    /\ req["w1"].user_id = U1 /\ req["w2"].user_id = U2
    /\ Len(orders) = 2 /\ orders[2]._id = loc["w2"].order_id
    /\ Len(txs) = 1 /\ txs[1].type = "redeem" /\ txs[1].order_id = loc["w1"].order_id
    /\ txs[1].points = -100 /\ orders[1].points_redeemed = 100

\* The stored users holding an email.
WithEmail(email) == {i \in 1..Len(users) : users[i].email = email}

\* C19: with one call at a time, create_user with an email a stored user holds
\* writes nothing and answers that user's id and current loyalty_points; with
\* a new email it inserts one user, with balance 0, and answers that document.
C19_CreateUserIdempotent ==
    [][/\ (/\ pc["w1"] = "idle" /\ req'["w1"].kind = "create_user"
           /\ <<req["w1"], resp["w1"], pc["w1"]>> # <<req'["w1"], resp'["w1"], pc'["w1"]>>)
          => /\ UNCHANGED <<users, orders, txs>>
             /\ IF WithEmail(req'["w1"].email) # {}
                THEN /\ pc'["w1"] = "idle"
                     /\ resp'["w1"].code = 200
                     /\ \A i \in WithEmail(req'["w1"].email) :
                            /\ resp'["w1"]._id = users[i]._id
                            /\ resp'["w1"].loyalty_points = users[i].loyalty_points
                ELSE pc'["w1"] = "insert_user"
       /\ (pc["w1"] = "insert_user" /\ pc'["w1"] = "idle")
          => /\ WithEmail(req["w1"].email) = {}
             /\ Len(users') = Len(users) + 1
             /\ Kept(users, users')
             /\ users'[Len(users')].email = req["w1"].email
             /\ users'[Len(users')].loyalty_points = 0
             /\ FindById(users, users'[Len(users')]._id) = {}
             /\ resp'["w1"].code = 200
             /\ resp'["w1"]._id = users'[Len(users')]._id
             /\ resp'["w1"].loyalty_points = 0
             /\ UNCHANGED <<orders, txs>>]_vars

\* C19 witness: after a checkout that earned 124 points, create_user with the
\* same email has answered the stored user with its balance of 124, and no
\* second user is stored.
C19_Witness ==
    /\ req["w1"].kind = "create_user" /\ pc["w1"] = "idle"
    /\ Len(users) = 1 /\ users[1].email = req["w1"].email
    /\ Len(orders) = 1
    /\ users[1].loyalty_points = 124
    /\ resp["w1"] = [code |-> 200, _id |-> U1, email |-> users[1].email,
                     loyalty_points |-> 124]

====
